---- MODULE Spec2Model ----
(***************************************************************************)
(* DataBatcher (src/src/DataBatcher.js): a coordinator that queues load    *)
(* and save requests, dispatches them in homogeneous batches through the   *)
(* caller's batch functions and settles one promise per request.           *)
(*                                                                         *)
(* The model keeps the object's fields (queue, loadCache, flushing, the    *)
(* prepared save function and options), the process.nextTick callbacks     *)
(* not yet run, the suspended _flushQueue invocations, and a history of    *)
(* what was enqueued, returned, dispatched and settled.                    *)
(***************************************************************************)
EXTENDS Integers, Sequences, FiniteSets, TLC

\* load and save calls (those of loadMany and saveMany included) made in one
\* behaviour.
MaxCalls == 3

\* Batch function calls in one behaviour that break the batch function's
\* contract (a throw, a non-awaitable, a rejection, a non-array, a wrong
\* length). A call of a missing save function is not counted: it always throws.
MaxFaults == 1

VARIABLES
  batchSaveFn,  \* this._batchSaveFn: "function", "null" or "undefined"
  options,      \* this._options
  loadCache,    \* this._loadCache: own properties, property key -> promise
  flushing,     \* this._flushing
  queue,        \* this._queue: pending items, oldest first
  ticks,        \* _flushQueue callbacks handed to process.nextTick, not yet run
  running,      \* suspended _flushQueue invocations (awaiting their batch)
  promises,     \* promise id -> its state; one promise per enqueued item
  enqueued,     \* history: every item pushed on the queue, in push order
  dispatched,   \* history: every batch handed to a batch function, in order
  calls,        \* history: every load/save call with what it returned
  manys,        \* history: every loadMany/saveMany call with its promises
  unhandled,    \* _flushQueue invocations whose promise was rejected
  callerKeys,   \* the keys the callers of this coordinator pass
  ctor          \* the constructor call: its arguments and how it ended

vars == <<batchSaveFn, options, loadCache, flushing, queue, ticks, running,
          promises, enqueued, dispatched, calls, manys, unhandled, callerKeys,
          ctor>>

----------------------------------------------------------------------------
(* Values *)

\* Caller-supplied keys: a number or a string. repr is String(key), which is
\* what JavaScript uses as the property name when the key indexes an object.
NumberKey(n) == [type |-> "number", repr |-> n]
StringKey(s) == [type |-> "string", repr |-> s]

Values == {"v"}

\* this._loadCache[cacheKey]: an object's property name is the string of the key.
ToPropertyKey(k) == k.repr

\* Properties every object literal {} inherits from Object.prototype (all truthy).
ObjectPrototypeKeys == {"constructor"}

\* What a call returns: a promise created by _loadLater/_saveLater, or the
\* inherited built-in found by the cache lookup.
Promise(id) == [kind |-> "promise", id |-> id]
Builtin == [kind |-> "builtin", id |-> 0]

UndefinedValue == [kind |-> "undefined", id |-> 0]
Truthy(x) == x.kind # "undefined"

\* The object literal {} and property reads, writes and deletes on it. A read
\* of a name the object does not own falls back to Object.prototype.
EmptyObject == [pk \in {} |-> UndefinedValue]
Get(obj, pk) ==
  IF pk \in DOMAIN obj THEN obj[pk]
  ELSE IF pk \in ObjectPrototypeKeys THEN Builtin
  ELSE UndefinedValue
Put(obj, pk, x) == [q \in DOMAIN obj \cup {pk} |-> IF q = pk THEN x ELSE obj[q]]
Delete(obj, pk) == [q \in DOMAIN obj \ {pk} |-> obj[q]]

----------------------------------------------------------------------------
(* Construction, lines 1-50 *)

\* A constructor argument by its typeof; val is the options it carries when
\* it is an object.
NoOptions == [cache |-> "undefined", cacheKeyFn |-> "undefined", maxBatchSize |-> 0]
Function == [type |-> "function", val |-> NoOptions]
Undefined == [type |-> "undefined", val |-> NoOptions]
Object(o) == [type |-> "object", val |-> o]

isFunction(x) == x.type = "function"
isUndefined(x) == x.type = "undefined"
isDefined(x) == x.type # "undefined"
isObject(x) == x.type = "object"

\* Option objects the constructor is given here. cacheKeyFn "const1" is the
\* function () => 1; maxBatchSize 0 stands for a missing (falsy) maxBatchSize.
OptionSamples ==
  { NoOptions,
    [NoOptions EXCEPT !.cache = "false"],
    [NoOptions EXCEPT !.cacheKeyFn = "const1"],
    [NoOptions EXCEPT !.maxBatchSize = 1],
    [NoOptions EXCEPT !.maxBatchSize = 2] }

prepareBatchLoadFn(loadFnArg) ==
  IF ~isFunction(loadFnArg) THEN "TypeError" ELSE "function"

\* A variant of prepareBatchSaveFn that takes every object for the options.
prepareBatchSaveFnAnyObject(saveFnArg, optionsArg) ==
  IF isObject(saveFnArg) THEN "null"
  ELSE IF isDefined(saveFnArg) /\ ~isFunction(saveFnArg) THEN "TypeError"
  ELSE saveFnArg.type

prepareBatchSaveFn(saveFnArg, optionsArg) ==
  IF isUndefined(optionsArg) /\ isObject(saveFnArg) THEN "null"
  ELSE IF isDefined(saveFnArg) /\ ~isFunction(saveFnArg) THEN "TypeError"
  ELSE saveFnArg.type

prepareOptions(saveFnArg, optionsArg) ==
  LET o == IF isUndefined(optionsArg) /\ isObject(saveFnArg) THEN saveFnArg
           ELSE optionsArg
  IN IF isObject(o) THEN o.val ELSE NoOptions

\* The constructor calls made here, each with the keys its callers use:
\* new DataBatcher(loadFn, saveFn) with three pairs of keys,
\* new DataBatcher(loadFn, saveFn, options) for each sample of options,
\* new DataBatcher(loadFn) and new DataBatcher(loadFn, options).
Ctor(saveFnArg, optionsArg, keys) ==
  [batchLoadFn |-> Function, batchSaveFn |-> saveFnArg, options |-> optionsArg,
   keys |-> keys]

OrdinaryKeys == {NumberKey("1"), NumberKey("2")}

Scenarios ==
  { s \in { Ctor(Function, Undefined, pool) :
              pool \in { OrdinaryKeys,
                         {NumberKey("1"), StringKey("1")},
                         {NumberKey("1"), StringKey("constructor")} } }
          \cup { Ctor(Function, Object(o), OrdinaryKeys) : o \in OptionSamples }
          \cup { Ctor(Undefined, Undefined, OrdinaryKeys),
                 Ctor(Object([NoOptions EXCEPT !.maxBatchSize = 2]), Undefined,
                      OrdinaryKeys) } :
      /\ prepareBatchLoadFn(s.batchLoadFn) # "TypeError"
      /\ prepareBatchSaveFn(s.batchSaveFn, s.options) # "TypeError" }

Init ==
  /\ \E s \in Scenarios :
       /\ batchSaveFn = prepareBatchSaveFn(s.batchSaveFn, s.options)
       /\ options = prepareOptions(s.batchSaveFn, s.options)
       /\ callerKeys = s.keys
       /\ ctor = [batchLoadFn |-> s.batchLoadFn, batchSaveFn |-> s.batchSaveFn,
                  options |-> s.options, result |-> "constructed"]
  /\ loadCache = EmptyObject
  /\ flushing = FALSE
  /\ queue = << >>
  /\ ticks = 0
  /\ running = << >>
  /\ promises = << >>
  /\ enqueued = << >>
  /\ dispatched = << >>
  /\ calls = << >>
  /\ manys = << >>
  /\ unhandled = 0

\* Arguments a constructor call may be given: a function, nothing, an
\* object (with or without options in it) and the boolean false.
BooleanArg == [type |-> "boolean", val |-> NoOptions]
ArgSamples ==
  {Function, Undefined, Object(NoOptions),
   Object([NoOptions EXCEPT !.maxBatchSize = 2]), BooleanArg}

\* new DataBatcher(batchLoadFn, batchSaveFn, options) is about to run.
InitCtor ==
  /\ \E a1 \in ArgSamples, a2 \in ArgSamples, a3 \in ArgSamples :
       ctor = [batchLoadFn |-> a1, batchSaveFn |-> a2, options |-> a3,
               result |-> "called"]
  /\ callerKeys = OrdinaryKeys
  /\ batchSaveFn = "undefined"
  /\ options = NoOptions
  /\ loadCache = EmptyObject
  /\ flushing = FALSE
  /\ queue = << >>
  /\ ticks = 0
  /\ running = << >>
  /\ promises = << >>
  /\ enqueued = << >>
  /\ dispatched = << >>
  /\ calls = << >>
  /\ manys = << >>
  /\ unhandled = 0

\* The constructor, lines 7-15: the first prepare call that throws ends it.
constructor(loadFnArg, saveFnArg, optionsArg) ==
  IF prepareBatchLoadFn(loadFnArg) = "TypeError"
  THEN [result |-> "TypeError: batch load function", batchSaveFn |-> "undefined",
        options |-> NoOptions]
  ELSE IF prepareBatchSaveFn(saveFnArg, optionsArg) = "TypeError"
  THEN [result |-> "TypeError: batch save function", batchSaveFn |-> "undefined",
        options |-> NoOptions]
  ELSE [result |-> "constructed",
        batchSaveFn |-> prepareBatchSaveFn(saveFnArg, optionsArg),
        options |-> prepareOptions(saveFnArg, optionsArg)]

Construct ==
  /\ ctor.result = "called"
  /\ LET made == constructor(ctor.batchLoadFn, ctor.batchSaveFn, ctor.options)
     IN /\ ctor' = [ctor EXCEPT !.result = made.result]
        /\ batchSaveFn' = made.batchSaveFn
        /\ options' = made.options
  /\ loadCache' = EmptyObject
  /\ flushing' = FALSE
  /\ queue' = << >>
  /\ UNCHANGED <<callerKeys, ticks, running, promises, enqueued, dispatched, calls,
                 manys, unhandled>>

NextCtor == Construct

SpecCtor == InitCtor /\ [][NextCtor]_vars

----------------------------------------------------------------------------
(* load, save, loadMany, saveMany: lines 52-100 *)

\* The part of the state a public call reads and writes; ret is what the
\* last call returned.
Core ==
  [loadCache |-> loadCache, queue |-> queue, ticks |-> ticks,
   promises |-> promises, enqueued |-> enqueued, calls |-> calls,
   ret |-> UndefinedValue]

Install(c) ==
  /\ loadCache' = c.loadCache
  /\ queue' = c.queue
  /\ ticks' = c.ticks
  /\ promises' = c.promises
  /\ enqueued' = c.enqueued
  /\ calls' = c.calls

Pending == [st |-> "pending", kind |-> "none", batch |-> 0, index |-> 0]

\* A variant of schedulesFlush that waits for a second item.
schedulesFlushOnSecondItem(queueLength, isFlushing) == queueLength = 2 /\ ~isFlushing

\* A variant of schedulesFlush that forgets the length of the queue.
schedulesFlushIgnoringLength(queueLength, isFlushing) == ~isFlushing

\* A variant of schedulesFlush that forgets the flushing flag.
schedulesFlushIgnoringFlag(queueLength, isFlushing) == queueLength = 1

\* if (this._queue.length === 1 && !this._flushing) process.nextTick(...)
schedulesFlush(queueLength, isFlushing) == queueLength = 1 /\ ~isFlushing

\* A variant of pushItem that puts the item in front of the queue.
pushItemInFront(c, item) ==
  LET q == <<item>> \o c.queue
  IN [c EXCEPT !.queue = q,
               !.enqueued = Append(@, item),
               !.promises = Append(@, Pending),
               !.ticks = IF schedulesFlush(Len(q), flushing) THEN @ + 1 ELSE @,
               !.ret = Promise(item.id)]

\* The promise executor shared by _loadLater and _saveLater: push the item,
\* schedule a flush if this is the only item and no flush is in progress.
pushItem(c, item) ==
  LET q == Append(c.queue, item)
  IN [c EXCEPT !.queue = q,
               !.enqueued = Append(@, item),
               !.promises = Append(@, Pending),
               !.ticks = IF schedulesFlush(Len(q), flushing) THEN @ + 1 ELSE @,
               !.ret = Promise(item.id)]

loadLater(c, key) ==
  pushItem(c, [id |-> Len(c.promises) + 1, type |-> "load", key |-> key,
               value |-> "undefined"])

saveLater(c, key, value) ==
  pushItem(c, [id |-> Len(c.promises) + 1, type |-> "save", key |-> key,
               value |-> value])

\* A variant of cacheKeyOf that ignores a configured cacheKeyFn.
cacheKeyOfRawKey(key) == key

\* cacheKeyFn ? cacheKeyFn(key) : key
cacheKeyOf(key) ==
  IF options.cacheKeyFn = "const1" THEN NumberKey("1") ELSE key

\* What the history keeps of one load/save call: what it returned, how many
\* items it pushed, how many flushes it handed to process.nextTick, and how
\* far the flush had got when it was made.
logCall(before, after, op, key, value) ==
  [after EXCEPT !.calls = Append(@, [op |-> op, key |-> key, value |-> value,
                                     ret |-> after.ret,
                                     pushed |-> Len(after.enqueued) - Len(before.enqueued),
                                     scheduled |-> after.ticks - before.ticks,
                                     batches |-> Len(dispatched),
                                     flushing |-> flushing])]

\* A variant of shouldCache that caches whatever the cache option says.
shouldCacheAlways(cacheOption) == TRUE

\* const shouldCache = this._options.cache !== false
shouldCache(cacheOption) == cacheOption # "false"

load(c, key) ==
  LET cacheKey == ToPropertyKey(cacheKeyOf(key))
      cached == Get(c.loadCache, cacheKey)
      later == loadLater(c, key)
  IN logCall(c,
             IF shouldCache(options.cache)
             THEN IF Truthy(cached) THEN [c EXCEPT !.ret = cached]
                  ELSE [later EXCEPT !.loadCache = Put(@, cacheKey, later.ret)]
             ELSE later,
             "load", key, "undefined")

save(c, key, value) ==
  LET cacheKey == ToPropertyKey(cacheKeyOf(key))
  IN logCall(c, saveLater([c EXCEPT !.loadCache = Delete(@, cacheKey)], key, value),
             "save", key, value)

\* keys.map(this.load.bind(this)): the loads run in order, in one turn.
RECURSIVE loadEach(_, _)
loadEach(c, keys) ==
  IF keys = << >> THEN c ELSE loadEach(load(c, Head(keys)), Tail(keys))

\* A variant of saveEach that drops a pair when a later pair has its key.
RECURSIVE saveEachCoalescing(_, _)
saveEachCoalescing(c, saves) ==
  IF saves = << >> THEN c
  ELSE IF \E i \in 2..Len(saves) : saves[i][1] = Head(saves)[1]
       THEN saveEachCoalescing(c, Tail(saves))
  ELSE saveEachCoalescing(save(c, Head(saves)[1], Head(saves)[2]), Tail(saves))

\* saves.map(([key, value]) => this.save(key, value))
RECURSIVE saveEach(_, _)
saveEach(c, saves) ==
  IF saves = << >> THEN c
  ELSE saveEach(save(c, Head(saves)[1], Head(saves)[2]), Tail(saves))

\* Arguments given to loadMany and saveMany here: two keys, two pairs.
KeyLists == {<<k1, k2>> : k1 \in callerKeys, k2 \in callerKeys}
SaveLists ==
  {<<<<k1, v1>>, <<k2, v2>>>> :
     k1 \in callerKeys, k2 \in callerKeys, v1 \in Values, v2 \in Values}

\* What the history keeps of one loadMany/saveMany call: its argument, the
\* number of its first load/save call, and what the calls numbered
\* from+1..to returned, which is what Promise.all is given.
logMany(c, op, from, args) ==
  Append(manys, [op |-> op, args |-> args, first |-> from + 1,
                 rets |-> [i \in 1..(Len(c.calls) - from) |-> c.calls[from + i].ret]])

Load(key) ==
  /\ Len(calls) < MaxCalls
  /\ Install(load(Core, key))
  /\ UNCHANGED <<batchSaveFn, options, callerKeys, ctor, flushing, running, dispatched, manys, unhandled>>

Save(key, value) ==
  /\ Len(calls) < MaxCalls
  /\ Install(save(Core, key, value))
  /\ UNCHANGED <<batchSaveFn, options, callerKeys, ctor, flushing, running, dispatched, manys, unhandled>>

LoadMany(keys) ==
  /\ Len(calls) + Len(keys) <= MaxCalls
  /\ LET c == loadEach(Core, keys)
     IN Install(c) /\ manys' = logMany(c, "loadMany", Len(calls), keys)
  /\ UNCHANGED <<batchSaveFn, options, callerKeys, ctor, flushing, running, dispatched, unhandled>>

SaveMany(saves) ==
  /\ Len(calls) + Len(saves) <= MaxCalls
  /\ LET c == saveEach(Core, saves)
     IN Install(c) /\ manys' = logMany(c, "saveMany", Len(calls), saves)
  /\ UNCHANGED <<batchSaveFn, options, callerKeys, ctor, flushing, running, dispatched, unhandled>>

----------------------------------------------------------------------------
(* _flushQueue: lines 102-133 *)

Min(a, b) == IF a < b THEN a ELSE b

\* A variant of effectiveMax that forgets the maxBatchSize option.
effectiveMaxUncapped(maxBatchSizeOption, queueLength) == queueLength

\* maxBatchSize ? Math.min(maxBatchSize, queueLength) : queueLength
effectiveMax(maxBatchSizeOption, queueLength) ==
  IF maxBatchSizeOption # 0 THEN Min(maxBatchSizeOption, queueLength)
  ELSE queueLength

\* let batchSize = 1; while (batchSize < maxBatchSize &&
\*   this._queue[batchSize].type === batchType) batchSize++
RECURSIVE scanBatch(_, _, _, _)
scanBatch(q, batchSize, maxBatchSize, batchType) ==
  IF batchSize < maxBatchSize /\ q[batchSize + 1].type = batchType
  THEN scanBatch(q, batchSize + 1, maxBatchSize, batchType)
  ELSE batchSize

\* A variant of batchSizeOf that does not compare the items' types.
batchSizeIgnoringType(q, maxBatchSize) == IF maxBatchSize < 1 THEN 1 ELSE maxBatchSize

batchSizeOf(q, maxBatchSize) == scanBatch(q, 1, maxBatchSize, q[1].type)

\* this._queue.splice(0, batchSize): the removed items and what is left.
spliced(q, batchSize) == SubSeq(q, 1, Min(batchSize, Len(q)))
\* A variant of afterSplice that removes one item more than the batch holds.
afterSpliceOneMore(q, batchSize) == SubSeq(q, Min(batchSize, Len(q)) + 2, Len(q))

afterSplice(q, batchSize) == SubSeq(q, Min(batchSize, Len(q)) + 1, Len(q))

\* What calling the batch function does at once: it returns an awaitable, it
\* returns something that is not one, or it throws. Calling a _batchSaveFn
\* that is null or undefined throws a TypeError.
Faulty(b) ==
  \/ b.returned # "awaitable"
  \/ b.result.kind \in {"rejected", "nonarray"}
  \/ b.result.kind = "array" /\ b.result.length # Len(b.items)
Faults ==
  Cardinality({i \in DOMAIN dispatched :
                 /\ Faulty(dispatched[i])
                 /\ ~(dispatched[i].type = "save" /\ batchSaveFn # "function")})

CallBehaviours(batchType) ==
  IF batchType = "save" /\ batchSaveFn # "function" THEN {"throws"}
  ELSE IF Faults >= MaxFaults THEN {"awaitable"}
  ELSE {"awaitable", "nonawaitable", "throws"}

NoResult == [kind |-> "pending", length |-> 0, errors |-> {}]

RemoveAt(seq, i) == SubSeq(seq, 1, i - 1) \o SubSeq(seq, i + 1, Len(seq))

\* One invocation of _flushQueue up to its await. others are the invocations
\* still suspended. An exception out of _batchLoad/_batchSave rejects this
\* invocation's promise, which nobody handles, and line 132 is never reached.
flushQueue(others) ==
  IF Len(queue) = 0
  THEN /\ flushing' = FALSE
       /\ running' = others
       /\ UNCHANGED <<queue, dispatched, unhandled>>
  ELSE LET queueLength == Len(queue)
           maxBatchSize == effectiveMax(options.maxBatchSize, queueLength)
           batchType == queue[1].type
           batchSize == batchSizeOf(queue, maxBatchSize)
           batch == spliced(queue, batchSize)
       IN /\ flushing' = TRUE
          /\ queue' = afterSplice(queue, batchSize)
          /\ \E returned \in CallBehaviours(batchType) :
               /\ dispatched' = Append(dispatched,
                     [type |-> batchType, items |-> batch, returned |-> returned,
                      result |-> NoResult, queueBefore |-> queue])
               /\ IF returned = "throws"
                  THEN running' = others /\ unhandled' = unhandled + 1
                  ELSE /\ running' = Append(others,
                                        [batch |-> Len(dispatched) + 1, pc |-> "call"])
                       /\ UNCHANGED unhandled

\* The callback given to process.nextTick runs.
FlushStart ==
  /\ ticks > 0
  /\ ticks' = ticks - 1
  /\ flushQueue(running)
  /\ UNCHANGED <<batchSaveFn, options, callerKeys, ctor, loadCache, promises, enqueued, calls, manys>>

\* Line 132: the batch was awaited, _flushQueue calls itself again.
Continue(i) ==
  /\ i \in DOMAIN running
  /\ running[i].pc = "resume"
  /\ flushQueue(RemoveAt(running, i))
  /\ UNCHANGED <<batchSaveFn, options, callerKeys, ctor, loadCache, ticks, promises, enqueued, calls,
                 manys>>

----------------------------------------------------------------------------
(* _batchLoad, _checkLoadResult, _batchSave, _checkSaveResult: lines 135-214 *)

\* What the awaitable returned for a batch of n items may do: reject, resolve
\* to something that is no array, or resolve to an array. An array is kept as
\* its length and the positions that hold an Error; arrays one shorter and
\* one longer than the batch stand for the wrong lengths.
Results(returned, n) ==
  IF returned = "nonawaitable"
  THEN {[kind |-> "none", length |-> 0, errors |-> {}]}
  ELSE (IF Faults >= MaxFaults THEN {}
        ELSE {[kind |-> "rejected", length |-> 0, errors |-> {}],
              [kind |-> "nonarray", length |-> 0, errors |-> {}],
              [kind |-> "array", length |-> n - 1, errors |-> {}],
              [kind |-> "array", length |-> n + 1, errors |-> {n + 1}]})
       \cup {[kind |-> "array", length |-> n, errors |-> e] : e \in SUBSET (1..n)}

\* The Error a check returns, or the array itself. error "none" marks an array.
Checked(error, result) ==
  [error |-> error, length |-> result.length, errors |-> result.errors]

\* A variant of checkLoadResult that accepts an array longer than the batch.
checkLoadResultAtLeast(returned, result, expectedLength) ==
  IF returned # "awaitable" THEN Checked("batchLoadFn: not a Promise", result)
  ELSE IF result.kind # "array" THEN Checked("batchLoadFn: not an Array", result)
  ELSE IF result.length < expectedLength
       THEN Checked("batchLoadFn: wrong length", result)
  ELSE Checked("none", result)

checkLoadResult(returned, result, expectedLength) ==
  IF returned # "awaitable" THEN Checked("batchLoadFn: not a Promise", result)
  ELSE IF result.kind # "array" THEN Checked("batchLoadFn: not an Array", result)
  ELSE IF result.length # expectedLength
       THEN Checked("batchLoadFn: wrong length", result)
  ELSE Checked("none", result)

checkSaveResult(returned, result, expectedLength) ==
  IF returned # "awaitable" THEN Checked("batchSaveFn: not a Promise", result)
  ELSE IF result.kind # "array" THEN Checked("batchSaveFn: not an Array", result)
  ELSE IF result.length # expectedLength
       THEN Checked("batchSaveFn: wrong length", result)
  ELSE Checked("none", result)

\* reject(x) and resolve(x) of one promise; a settled promise stays as it is.
\* A value is named by the batch and the array position it came from; the one
\* Error object of a failed check has position 0.
settle(p, st, kind, batchNo, index) ==
  IF p.st = "pending"
  THEN [st |-> st, kind |-> kind, batch |-> batchNo, index |-> index]
  ELSE p

\* A variant of resultIndex that reads the array one position further.
resultIndexOffByOne(index) == index + 1

\* loadResult[index] for the item at (0-based) position index - 1.
resultIndex(index) == index

\* The position of the item with this id in the batch, 0 if it is not in it.
PositionOf(batch, id) ==
  IF \E i \in DOMAIN batch : batch[i].id = id
  THEN CHOOSE i \in DOMAIN batch : batch[i].id = id
  ELSE 0

batchLoad(proms, batchNo, batch, loadResult) ==
  [id \in DOMAIN proms |->
     LET index == PositionOf(batch, id)
         at == resultIndex(index)
     IN IF index = 0 THEN proms[id]
        ELSE IF loadResult.error # "none"
             THEN settle(proms[id], "rejected", loadResult.error, batchNo, 0)
        ELSE IF at \in loadResult.errors
             THEN settle(proms[id], "rejected", "Error", batchNo, at)
        ELSE settle(proms[id], "resolved", "value", batchNo, at)]

batchSave(proms, batchNo, batch, saveResult) ==
  [id \in DOMAIN proms |->
     LET index == PositionOf(batch, id)
         at == resultIndex(index)
     IN IF index = 0 THEN proms[id]
        ELSE IF saveResult.error # "none"
             THEN settle(proms[id], "rejected", saveResult.error, batchNo, 0)
        ELSE IF at \in saveResult.errors
             THEN settle(proms[id], "rejected", "Error", batchNo, at)
        ELSE settle(proms[id], "resolved", "value", batchNo, at)]

\* The batch function's answer arrives (or the check of a non-awaitable is
\* awaited) and _batchLoad/_batchSave hands the results to the items. A
\* rejected awaitable throws out of the check and ends the flush as a throw
\* of the batch function does.
Settle(i) ==
  /\ i \in DOMAIN running
  /\ running[i].pc = "call"
  /\ LET batchNo == running[i].batch
         b == dispatched[batchNo]
     IN \E result \in Results(b.returned, Len(b.items)) :
          /\ dispatched' = [dispatched EXCEPT ![batchNo].result = result]
          /\ IF result.kind = "rejected"
             THEN /\ running' = RemoveAt(running, i)
                  /\ unhandled' = unhandled + 1
                  /\ UNCHANGED promises
             ELSE /\ running' = [running EXCEPT ![i].pc = "resume"]
                  /\ promises' =
                       IF b.type = "load"
                       THEN batchLoad(promises, batchNo, b.items,
                              checkLoadResult(b.returned, result, Len(b.items)))
                       ELSE batchSave(promises, batchNo, b.items,
                              checkSaveResult(b.returned, result, Len(b.items)))
                  /\ UNCHANGED unhandled
  /\ UNCHANGED <<batchSaveFn, options, callerKeys, ctor, loadCache, flushing, queue, ticks, enqueued,
                 calls, manys>>

\* Promise.all(rets) as it stands now. A value that is no promise counts as
\* resolved with itself. The result is rejected with the reason of the input
\* that was rejected first (batches settle one after the other, the items of
\* a batch in batch order), resolved with the inputs' values in the inputs'
\* order once all are resolved, and pending otherwise.
stateOf(ret) ==
  IF ret.kind = "promise" THEN promises[ret.id]
  ELSE [st |-> "resolved", kind |-> ret.kind, batch |-> 0, index |-> 0]

rejectedAt(ret) ==
  LET p == promises[ret.id]
  IN p.batch * (Len(enqueued) + 1) + PositionOf(dispatched[p.batch].items, ret.id)

promiseAll(rets) ==
  LET rejected == {i \in DOMAIN rets : stateOf(rets[i]).st = "rejected"}
      first == CHOOSE i \in rejected :
                 \A j \in rejected : rejectedAt(rets[i]) <= rejectedAt(rets[j])
  IN IF rejected # {}
     THEN [st |-> "rejected", reason |-> stateOf(rets[first]), values |-> << >>]
     ELSE IF \A i \in DOMAIN rets : stateOf(rets[i]).st = "resolved"
     THEN [st |-> "resolved", reason |-> Pending,
           values |-> [i \in DOMAIN rets |-> stateOf(rets[i])]]
     ELSE [st |-> "pending", reason |-> Pending, values |-> << >>]

----------------------------------------------------------------------------

Next ==
  \/ \E key \in callerKeys : Load(key)
  \/ \E key \in callerKeys, value \in Values : Save(key, value)
  \/ \E keys \in KeyLists : LoadMany(keys)
  \/ \E saves \in SaveLists : SaveMany(saves)
  \/ FlushStart
  \/ \E i \in DOMAIN running : Settle(i)
  \/ \E i \in DOMAIN running : Continue(i)

Spec == Init /\ [][Next]_vars

----------------------------------------------------------------------------
(* Properties *)

\* Nothing is scheduled and no flush is suspended: without a new call the
\* coordinator takes no further step.
Quiescent == ticks = 0 /\ running = << >>

\* The batch's results were handed to its items.
Distributed(b) == dispatched[b].result.kind \in {"none", "nonarray", "array"}

\* The batch function returned an awaitable that resolved to an array of the
\* batch's length.
WellFormed(b) ==
  /\ dispatched[b].returned = "awaitable"
  /\ dispatched[b].result.kind = "array"
  /\ dispatched[b].result.length = Len(dispatched[b].items)

BatchIds(b) == {dispatched[b].items[i].id : i \in DOMAIN dispatched[b].items}

RECURSIVE DispatchedItems(_)
DispatchedItems(n) ==
  IF n = 0 THEN << >> ELSE DispatchedItems(n - 1) \o dispatched[n].items

\* The coordinator is back at rest: quiescent with the flushing flag cleared.
Idle == Quiescent /\ ~flushing

\* Two keys have the same cache key (cacheKeyFn's value, or the key itself).
SameCacheKey(k1, k2) == cacheKeyOf(k1) = cacheKeyOf(k2)

\* A save to key's cache key was called strictly between calls i and j.
SaveBetween(i, j, key) ==
  \E m \in (i + 1)..(j - 1) :
    calls[m].op = "save" /\ SameCacheKey(calls[m].key, key)

\* A load of key's cache key was called strictly between calls i and j.
LoadBetween(i, j, key) ==
  \E m \in (i + 1)..(j - 1) :
    calls[m].op = "load" /\ SameCacheKey(calls[m].key, key)

\* Call i is the first load of its cache key since construction or since the
\* last save to that cache key.
FirstLoad(i) ==
  \A m \in 1..(i - 1) :
    (calls[m].op = "load" /\ SameCacheKey(calls[m].key, calls[i].key))
      => SaveBetween(m, i, calls[i].key)

\* The load batches that hold the item of promise id.
LoadBatchesOf(id) ==
  {b \in DOMAIN dispatched : dispatched[b].type = "load" /\ id \in BatchIds(b)}

Occurrences(b, key) ==
  Cardinality({p \in DOMAIN dispatched[b].items : dispatched[b].items[p].key = key})

\* C1: with caching enabled, for every key k, two load(k) calls made before
\* the scheduled flush starts, with no save to k's cache key between them,
\* return the identical promise and push one Load item for k between them;
\* the batch load function gets that item in one call only, with k once in
\* its keys, and has got it once the coordinator is back at rest.
C1_TwoLoadsShareOneFetch ==
  options.cache # "false" =>
    \A i \in DOMAIN calls : \A j \in DOMAIN calls :
      ( /\ i < j
        /\ calls[i].op = "load" /\ calls[j].op = "load"
        /\ calls[i].key = calls[j].key
        /\ ~calls[i].flushing /\ ~calls[j].flushing
        /\ calls[i].batches = calls[j].batches
        /\ ~SaveBetween(i, j, calls[i].key)
        /\ FirstLoad(i) )
      => /\ calls[i].ret.kind = "promise"
         /\ calls[j].ret = calls[i].ret
         /\ calls[i].pushed = 1 /\ calls[j].pushed = 0
         /\ enqueued[calls[i].ret.id].type = "load"
         /\ enqueued[calls[i].ret.id].key = calls[i].key
         /\ Cardinality(LoadBatchesOf(calls[i].ret.id)) <= 1
         /\ \A b \in LoadBatchesOf(calls[i].ret.id) : Occurrences(b, calls[i].key) = 1
         /\ Idle => Cardinality(LoadBatchesOf(calls[i].ret.id)) = 1

\* C2: for every sequence load(k); save(k, v); load(k), the load after the
\* save returns a promise other than the first load's, pushes a Load item of
\* its own, and that item is dispatched only in a batch taken after the batch
\* holding the save has handed out its results.
C2_LoadAfterSaveIsFresh ==
  \A i \in DOMAIN calls : \A s \in DOMAIN calls : \A j \in DOMAIN calls :
    ( /\ i < s /\ s < j
      /\ calls[i].op = "load" /\ calls[s].op = "save" /\ calls[j].op = "load"
      /\ calls[s].key = calls[i].key /\ calls[j].key = calls[i].key
      /\ ~LoadBetween(s, j, calls[j].key) )
    => /\ calls[j].ret.kind = "promise"
       /\ calls[j].ret # calls[i].ret
       /\ calls[j].pushed = 1
       /\ enqueued[calls[j].ret.id].type = "load"
       /\ enqueued[calls[j].ret.id].key = calls[j].key
       /\ \A bj \in LoadBatchesOf(calls[j].ret.id) :
            \E bs \in 1..(bj - 1) :
              /\ dispatched[bs].type = "save"
              /\ calls[s].ret.id \in BatchIds(bs)
              /\ Distributed(bs)

\* C3: every failure is surfaced to the caller: whatever a batch function
\* does, once the coordinator has nothing more scheduled or running, every
\* promise it handed out is resolved or rejected and no item waits in the queue.
C3_EveryItemSettles ==
  Quiescent =>
    /\ queue = << >>
    /\ \A id \in DOMAIN promises : promises[id].st # "pending"

\* C4: when the batch function resolves to an array of the batch's length,
\* the item at position i is rejected with element i if that element is an
\* Error and resolved with element i otherwise, for load and save batches.
C4_PositionalSettlement ==
  \A b \in DOMAIN dispatched :
    WellFormed(b) =>
      \A i \in DOMAIN dispatched[b].items :
        promises[dispatched[b].items[i].id] =
          IF i \in dispatched[b].result.errors
          THEN [st |-> "rejected", kind |-> "Error", batch |-> b, index |-> i]
          ELSE [st |-> "resolved", kind |-> "value", batch |-> b, index |-> i]

\* A load batch of two or more items with an Error at some positions only,
\* and a save batch with an Error, both settled.
C4_Witness ==
  /\ \E b \in DOMAIN dispatched :
       /\ WellFormed(b) /\ dispatched[b].type = "load"
       /\ Len(dispatched[b].items) >= 2
       /\ dispatched[b].result.errors # {}
       /\ dispatched[b].result.errors # DOMAIN dispatched[b].items
  /\ \E b \in DOMAIN dispatched :
       /\ WellFormed(b) /\ dispatched[b].type = "save"
       /\ dispatched[b].result.errors # {}

\* The Error the checks of lines 150-173 and 191-214 are documented to give.
ValidationError(b) ==
  LET d == dispatched[b]
      isLoad == d.type = "load"
  IN IF d.returned = "nonawaitable"
     THEN (IF isLoad THEN "batchLoadFn: not a Promise" ELSE "batchSaveFn: not a Promise")
     ELSE IF d.result.kind = "nonarray"
     THEN (IF isLoad THEN "batchLoadFn: not an Array" ELSE "batchSaveFn: not an Array")
     ELSE (IF isLoad THEN "batchLoadFn: wrong length" ELSE "batchSaveFn: wrong length")

\* C5: when a batch function returns a non-awaitable, or an awaitable that
\* resolves to a non-array or to an array shorter or longer than the batch,
\* every item of the batch is rejected with the one validation error and none
\* is resolved; a promise is only ever settled by the batch holding its item.
C5_ValidationRejectsWholeBatch ==
  /\ \A b \in DOMAIN dispatched :
       (Distributed(b) /\ ~WellFormed(b)) =>
         \A i \in DOMAIN dispatched[b].items :
           promises[dispatched[b].items[i].id] =
             [st |-> "rejected", kind |-> ValidationError(b), batch |-> b, index |-> 0]
  /\ \A id \in DOMAIN promises :
       promises[id].st # "pending" =>
         /\ promises[id].batch \in DOMAIN dispatched
         /\ id \in BatchIds(promises[id].batch)

\* A load batch of two items answered by a longer array and rejected as a
\* whole, while an item of another batch is resolved.
C5_Witness ==
  \E b \in DOMAIN dispatched :
    /\ dispatched[b].type = "load"
    /\ Len(dispatched[b].items) = 2
    /\ dispatched[b].result.kind = "array"
    /\ dispatched[b].result.length > 2
    /\ \A id \in BatchIds(b) : promises[id].st = "rejected"
    /\ \E id \in DOMAIN promises : id \notin BatchIds(b) /\ promises[id].st = "resolved"

\* C6: every batch handed to a batch function is non-empty, holds items of
\* one kind only (the kind of the function it is sent to), and is the longest
\* same-kind prefix of the queue at dispatch time within the effective maximum.
C6_HomogeneousLongestPrefix ==
  \A b \in DOMAIN dispatched :
    LET d == dispatched[b]
        n == Len(d.items)
        len == Len(d.queueBefore)
        max == IF options.maxBatchSize > 0 /\ options.maxBatchSize < len
               THEN options.maxBatchSize ELSE len
    IN /\ n >= 1
       /\ n <= max
       /\ d.items = SubSeq(d.queueBefore, 1, n)
       /\ \A i \in 1..n : d.items[i].type = d.type
       /\ n = max \/ d.queueBefore[n + 1].type # d.type

\* A batch of two items cut short by an item of the other kind behind it.
C6_Witness ==
  \E b \in DOMAIN dispatched :
    LET d == dispatched[b]
    IN /\ Len(d.items) = 2
       /\ Len(d.queueBefore) > 2
       /\ d.queueBefore[3].type # d.type

\* C7: with maxBatchSize = m no batch has more than m items, and when n > m
\* items of one kind were all enqueued before the first batch was taken and
\* nothing else was enqueued, the batches taken are the consecutive slices of
\* m items of the arrival order, ceil(n/m) of them once the queue is empty.
C7_MaxBatchSizeSlices ==
  LET m == options.maxBatchSize
      n == Len(enqueued)
  IN m > 0 =>
       /\ \A b \in DOMAIN dispatched : Len(dispatched[b].items) <= m
       /\ ( /\ dispatched # << >>
            /\ Len(dispatched[1].queueBefore) = n
            /\ n > m
            /\ \A i \in 1..n : enqueued[i].type = enqueued[1].type )
          => /\ \A b \in DOMAIN dispatched :
                  dispatched[b].items = SubSeq(enqueued, (b - 1) * m + 1, Min(b * m, n))
             /\ queue = << >> => Len(dispatched) = (n + m - 1) \div m

\* Three items of one kind with maxBatchSize 2, drained in two batches.
C7_Witness ==
  /\ options.maxBatchSize = 2
  /\ Len(enqueued) = 3
  /\ \A i \in 1..3 : enqueued[i].type = enqueued[1].type
  /\ queue = << >>
  /\ Len(dispatched) = 2
  /\ Len(dispatched[1].queueBefore) = 3

\* C8: the batches dispatched so far, in dispatch order, followed by the
\* queue are exactly the items enqueued so far in enqueue order: no item is
\* dropped, duplicated or reordered.
C8_DispatchOrderIsArrivalOrder ==
  DispatchedItems(Len(dispatched)) \o queue = enqueued

\* Two batches dispatched, the second holding an item enqueued after the
\* first was taken, and an item still queued.
C8_Witness ==
  /\ Len(dispatched) >= 2
  /\ queue # << >>
  /\ \E c \in DOMAIN calls : calls[c].batches = 1 /\ calls[c].pushed = 1

\* C9: at most one batch function call is in flight, and a batch is taken
\* from the queue only after the results of the batch before it were handed
\* to its items.
C9_SequentialBatches ==
  /\ Len(running) <= 1
  /\ \A b \in DOMAIN dispatched :
       b < Len(dispatched) => Distributed(b)
  /\ \A f \in DOMAIN running : running[f].batch = Len(dispatched)

\* A call made while a batch was in flight and the queue was empty, its item
\* dispatched in a second batch.
C9_Witness ==
  /\ Len(dispatched) >= 2
  /\ \E c \in DOMAIN calls :
       /\ calls[c].flushing /\ calls[c].pushed = 1
       /\ calls[c].ret.id \in BatchIds(2)
       /\ Len(dispatched[1].items) = calls[c].ret.id - 1

\* C10: on a coordinator without a save function, save and saveMany fail
\* fast: once nothing more is scheduled or running, no Save item is pending
\* and the promise of every save call is rejected.
C10_SaveFailsFastWhenLoadOnly ==
  (batchSaveFn # "function" /\ Quiescent) =>
    /\ \A i \in DOMAIN queue : queue[i].type # "save"
    /\ \A c \in DOMAIN calls :
         calls[c].op = "save" => promises[calls[c].ret.id].st = "rejected"

\* How many items of a sequence are of this type and carry this key.
CountKey(items, type, key) ==
  Cardinality({i \in DOMAIN items : items[i].type = type /\ items[i].key = key})

\* The load calls made so far with this key.
LoadCallsOf(key) == {i \in DOMAIN calls : calls[i].op = "load" /\ calls[i].key = key}

\* C11: with cache: false, every load call pushes a Load item of its own for
\* its key and returns that item's promise, so N load(k) calls return N
\* pairwise distinct promises; the batch load function has received k once
\* per load(k) call whose item has left the queue (N times in all once the
\* queue is empty), and the load cache stays empty.
C11_NoCacheLoadsAreIndependent ==
  options.cache = "false" =>
    /\ loadCache = EmptyObject
    /\ \A i \in DOMAIN calls :
         calls[i].op = "load" =>
           /\ calls[i].pushed = 1
           /\ calls[i].ret.kind = "promise"
           /\ enqueued[calls[i].ret.id].type = "load"
           /\ enqueued[calls[i].ret.id].key = calls[i].key
    /\ \A i \in DOMAIN calls : \A j \in DOMAIN calls :
         (i # j /\ calls[i].op = "load" /\ calls[j].op = "load")
           => calls[i].ret # calls[j].ret
    /\ \A k \in callerKeys :
         CountKey(DispatchedItems(Len(dispatched)), "load", k)
           + CountKey(queue, "load", k) = Cardinality(LoadCallsOf(k))

\* Three loads of one key with cache: false, all handed to the batch load
\* function, two of them in one batch.
C11_Witness ==
  /\ options.cache = "false"
  /\ queue = << >>
  /\ \E k \in callerKeys :
       /\ Cardinality(LoadCallsOf(k)) = 3
       /\ CountKey(DispatchedItems(Len(dispatched)), "load", k) = 3
       /\ \E b \in DOMAIN dispatched : CountKey(dispatched[b].items, "load", k) = 2

\* No save was called strictly between calls i and j.
NoSaveBetween(i, j) == \A m \in (i + 1)..(j - 1) : calls[m].op # "save"

\* No load was called strictly between calls i and j.
NoLoadBetween(i, j) == \A m \in (i + 1)..(j - 1) : calls[m].op # "load"

\* Call i is the first load since construction or since the last save.
FirstLoadSinceSave(i) ==
  \A m \in 1..(i - 1) : calls[m].op = "load" => ~NoSaveBetween(m, i)

\* C12: with cacheKeyFn: () => 1 every key has the cache key 1, so a load of
\* any key returns the promise of the first load made since the last save,
\* whatever key that one had, and only that first load pushes an item (with
\* its own key); a save of any key removes the shared entry, so the cache is
\* empty after it and the next load pushes a new item and returns a new promise.
C12_CacheKeyFnCoalesces ==
  options.cacheKeyFn = "const1" =>
    /\ \A i \in DOMAIN calls : \A j \in DOMAIN calls :
         ( /\ i < j
           /\ calls[i].op = "load" /\ calls[j].op = "load"
           /\ FirstLoadSinceSave(i)
           /\ NoSaveBetween(i, j) )
         => /\ calls[i].ret.kind = "promise"
            /\ calls[j].ret = calls[i].ret
            /\ calls[i].pushed = 1 /\ calls[j].pushed = 0
            /\ enqueued[calls[i].ret.id].type = "load"
            /\ enqueued[calls[i].ret.id].key = calls[i].key
    /\ \A s \in DOMAIN calls : \A j \in DOMAIN calls :
         ( /\ s < j
           /\ calls[s].op = "save" /\ calls[j].op = "load"
           /\ NoLoadBetween(s, j) )
         => /\ calls[j].pushed = 1
            /\ \A i \in 1..(j - 1) : calls[i].ret # calls[j].ret
    /\ (calls # << >> /\ calls[Len(calls)].op = "save") => loadCache = EmptyObject

\* load(k1) and load(k2) of two different keys returned one promise, then
\* save(k2, v) emptied the cache, and the batch load function got k1 only.
C12_Witness ==
  /\ options.cacheKeyFn = "const1"
  /\ Len(calls) = 3
  /\ calls[1].op = "load" /\ calls[2].op = "load" /\ calls[3].op = "save"
  /\ calls[1].key # calls[2].key
  /\ calls[3].key = calls[2].key
  /\ calls[2].ret = calls[1].ret
  /\ loadCache = EmptyObject
  /\ \E b \in DOMAIN dispatched :
       /\ dispatched[b].type = "load"
       /\ Len(dispatched[b].items) = 1
       /\ dispatched[b].items[1].key = calls[1].key

\* The batches that hold the item of promise id (one at most, by C8).
BatchesOf(id) == {b \in DOMAIN dispatched : id \in BatchIds(b)}

\* The array element the batch function returned for the item of promise id:
\* the element at the item's position in the array answering its batch.
ElementFor(id) ==
  LET b == CHOOSE x \in BatchesOf(id) : TRUE
  IN [st |-> "resolved", kind |-> "value", batch |-> b,
      index |-> PositionOf(dispatched[b].items, id)]

\* C13: saveMany makes one save call per pair, in the order given and without
\* coalescing repeated keys: N pairs push N Save items carrying the pairs in
\* order, the batch save function receives them in that order (in one batch
\* or in consecutive ones), and once every pair's result is a value the
\* promise saveMany returned is resolved with those values, the i-th being
\* the element the batch save function returned for the i-th pair.
C13_SaveManyInOrder ==
  \A m \in DOMAIN manys :
    manys[m].op = "saveMany" =>
      LET a == manys[m].args
          r == manys[m].rets
          f == manys[m].first
      IN /\ Len(r) = Len(a)
         /\ \A p \in DOMAIN a :
              /\ calls[f + p - 1].op = "save"
              /\ calls[f + p - 1].key = a[p][1]
              /\ calls[f + p - 1].value = a[p][2]
              /\ calls[f + p - 1].pushed = 1
              /\ r[p].kind = "promise"
              /\ r[p].id = r[1].id + p - 1
              /\ enqueued[r[p].id] =
                   [id |-> r[p].id, type |-> "save", key |-> a[p][1], value |-> a[p][2]]
         /\ \A p \in DOMAIN a : \A q \in DOMAIN a :
              p < q =>
                \A bp \in BatchesOf(r[p].id) : \A bq \in BatchesOf(r[q].id) :
                  /\ dispatched[bp].type = "save" /\ dispatched[bq].type = "save"
                  /\ \/ bp < bq
                     \/ /\ bp = bq
                        /\ PositionOf(dispatched[bp].items, r[p].id)
                             < PositionOf(dispatched[bq].items, r[q].id)
         /\ (\A p \in DOMAIN a : promises[r[p].id].st = "resolved")
              => promiseAll(r) =
                   [st |-> "resolved", reason |-> Pending,
                    values |-> [p \in DOMAIN a |-> ElementFor(r[p].id)]]

\* saveMany of two pairs with one key: two Save items sent in one batch and
\* the returned promise resolved with the two elements in order.
C13_Witness ==
  \E m \in DOMAIN manys :
    /\ manys[m].op = "saveMany"
    /\ Len(manys[m].args) = 2
    /\ manys[m].args[1][1] = manys[m].args[2][1]
    /\ promiseAll(manys[m].rets).st = "resolved"
    /\ \E b \in DOMAIN dispatched :
         /\ dispatched[b].type = "save"
         /\ Len(dispatched[b].items) = 2
         /\ \A p \in 1..2 : dispatched[b].items[p].id = manys[m].rets[p].id

\* The keys of a list that are the first of their cache key in it, in order.
RECURSIVE FirstOccurrences(_, _)
FirstOccurrences(keys, seen) ==
  IF keys = << >> THEN << >>
  ELSE IF cacheKeyOf(Head(keys)) \in seen THEN FirstOccurrences(Tail(keys), seen)
  ELSE <<Head(keys)>> \o FirstOccurrences(Tail(keys), seen \cup {cacheKeyOf(Head(keys))})

\* The items pushed by the calls before call i.
PushedBefore(i) == Cardinality({id \in DOMAIN enqueued :
                                  \E c \in 1..(i - 1) : calls[c].ret = Promise(id)
                                                         /\ calls[c].pushed = 1})

\* The items dispatched in the first n batches.
DispatchedIn(n) == Len(DispatchedItems(n))

\* The coordinator was idle when call i was made: no flush in progress and
\* every item pushed before the call already dispatched.
IdleAtCall(i) ==
  /\ ~calls[i].flushing
  /\ DispatchedIn(calls[i].batches) = PushedBefore(i)

\* When call i was made the cache held no entry for key's cache key: every
\* earlier load of that cache key was followed by a save to it.
NotCachedAtCall(i, key) ==
  \A c \in 1..(i - 1) :
    (calls[c].op = "load" /\ SameCacheKey(calls[c].key, key))
      => \E x \in (c + 1)..(i - 1) :
           calls[x].op = "save" /\ SameCacheKey(calls[x].key, key)

KeysOf(items) == [i \in DOMAIN items |-> items[i].key]

\* C14: a loadMany(keys) made on an idle coordinator without maxBatchSize,
\* none of the keys being cached and no other call being made before the
\* flush starts, causes one batch load function call: the batch taken next
\* holds the keys in the given order (with caching, the first key of each
\* cache key), no other batch holds any of them, and when every load resolved
\* the returned promise is resolved with the element returned for keys[i] at
\* position i, while a rejected load rejects it with one of the loads' errors.
C14_LoadManyOneBatch ==
  \A m \in DOMAIN manys :
    LET a == manys[m].args
        r == manys[m].rets
        f == manys[m].first
        l == f + Len(a) - 1
        next == calls[f].batches + 1
        expected == IF shouldCache(options.cache) THEN FirstOccurrences(a, {}) ELSE a
    IN ( /\ manys[m].op = "loadMany"
         /\ options.maxBatchSize = 0
         /\ IdleAtCall(f)
         /\ \A p \in DOMAIN a : NotCachedAtCall(f, a[p])
         /\ \A c \in DOMAIN calls : c > l => calls[c].batches >= next )
       => /\ \A p \in DOMAIN a : r[p].kind = "promise"
          /\ Len(dispatched) >= next =>
               /\ dispatched[next].type = "load"
               /\ KeysOf(dispatched[next].items) = expected
               /\ \A p \in DOMAIN a : BatchesOf(r[p].id) = {next}
          /\ (\A p \in DOMAIN a : stateOf(r[p]).st = "resolved")
               => promiseAll(r) =
                    [st |-> "resolved", reason |-> Pending,
                     values |-> [p \in DOMAIN a |-> ElementFor(r[p].id)]]
          /\ (\E p \in DOMAIN a : stateOf(r[p]).st = "rejected")
               => /\ promiseAll(r).st = "rejected"
                  /\ \E p \in DOMAIN a : promiseAll(r).reason = promises[r[p].id]

\* C15: the constructor throws at once when its first argument is no
\* function; with a function first, a second argument that is an object
\* while no third is given is taken as the options and there is no save
\* function; any other second argument that is defined and no function makes
\* it throw at once, an object followed by a third argument included; and a
\* second argument that is undefined or a function is accepted.
C15_ConstructorValidatesArguments ==
  ctor.result # "called" =>
    LET a1 == ctor.batchLoadFn
        a2 == ctor.batchSaveFn
        a3 == ctor.options
        asOptions == isObject(a2) /\ isUndefined(a3)
    IN /\ ~isFunction(a1) => ctor.result = "TypeError: batch load function"
       /\ isFunction(a1) =>
            /\ asOptions =>
                 /\ ctor.result = "constructed"
                 /\ batchSaveFn = "null"
                 /\ options = a2.val
            /\ (~asOptions /\ isDefined(a2) /\ ~isFunction(a2)) =>
                 ctor.result = "TypeError: batch save function"
            /\ isUndefined(a2) =>
                 ctor.result = "constructed" /\ batchSaveFn = "undefined"
            /\ isFunction(a2) =>
                 ctor.result = "constructed" /\ batchSaveFn = "function"

\* new DataBatcher(loadFn, {}, {}) has thrown: the second argument is an
\* object but a third one is given.
C15_Witness ==
  /\ isFunction(ctor.batchLoadFn)
  /\ isObject(ctor.batchSaveFn)
  /\ isObject(ctor.options)
  /\ ctor.result = "TypeError: batch save function"

\* C16: at most one flush is scheduled or active: the flushes handed to
\* process.nextTick and not yet started plus those started and not finished
\* are never more than one, and a load or save call schedules a flush exactly
\* when it pushes an item onto an empty queue while the flushing flag is
\* false (never while a flush is scheduled, as the queue is not empty then,
\* nor while one runs, as the flag is set then).
C16_AtMostOneFlush ==
  /\ ticks + Len(running) <= 1
  /\ \A c \in DOMAIN calls :
       /\ calls[c].scheduled \in {0, 1}
       /\ calls[c].scheduled = 1 <=> (calls[c].pushed = 1 /\ IdleAtCall(c))

\* Three calls that each pushed an item: the first scheduled the flush, the
\* second came before the flush started and the third while the batch was in
\* flight, and neither of the two scheduled another one.
C16_Witness ==
  /\ Len(calls) = 3
  /\ \A c \in 1..3 : calls[c].pushed = 1
  /\ calls[1].scheduled = 1
  /\ calls[2].scheduled = 0 /\ ~calls[2].flushing /\ calls[2].batches = 0
  /\ calls[3].scheduled = 0 /\ calls[3].flushing /\ calls[3].batches = 1
  /\ ticks = 0
  /\ Len(running) = 1 /\ running[1].pc = "call"

\* The flushing flag is cleared in this step.
FlagCleared == flushing /\ ~flushing'

\* C17: no item is stranded while the coordinator is idle: whenever the
\* flushing flag is false and no flush is scheduled the queue is empty; the
\* flag is cleared only by a step of the flush loop that finds the queue
\* empty (line 103); and a call that pushes an item while the flag is false
\* and the queue is empty schedules a flush.
C17_NoItemStrandedWhileIdle ==
  /\ []((~flushing /\ ticks = 0) => queue = << >>)
  /\ [][FlagCleared =>
         /\ queue = << >> /\ queue' = << >>
         /\ \E i \in DOMAIN running : running[i].pc = "resume" /\ running' = RemoveAt(running, i)
         /\ UNCHANGED <<loadCache, ticks, promises, enqueued, dispatched, calls>>]_vars
  /\ [](\A c \in DOMAIN calls :
          (calls[c].pushed = 1 /\ IdleAtCall(c)) => calls[c].scheduled = 1)

\* The flush loop has drained the queue and cleared the flag twice: the
\* second time after a call made while idle had scheduled a new flush.
C17_Witness ==
  /\ ~flushing /\ ticks = 0 /\ queue = << >> /\ running = << >>
  /\ Len(dispatched) >= 2
  /\ \E c \in DOMAIN calls :
       /\ calls[c].batches >= 1
       /\ ~calls[c].flushing
       /\ calls[c].scheduled = 1

\* A batch function call is in flight: a flush awaits its batch.
InFlight == \E i \in DOMAIN running : running[i].pc = "call"

\* This step is a load, save, loadMany or saveMany call.
CallStep == Len(calls') > Len(calls)

\* A call made while a batch is in flight appends what it pushes to the queue
\* and leaves the batch, its flush, its items' promises and the scheduled
\* flushes as they are.
EnqueueLeavesBatchAlone ==
  (InFlight /\ CallStep) =>
    /\ UNCHANGED <<running, dispatched, ticks, flushing>>
    /\ Len(queue') >= Len(queue)
    /\ SubSeq(queue', 1, Len(queue)) = queue
    /\ enqueued' = enqueued \o SubSeq(queue', Len(queue) + 1, Len(queue'))
    /\ SubSeq(promises', 1, Len(promises)) = promises
    /\ \A c \in (Len(calls) + 1)..Len(calls') :
         /\ calls'[c].flushing
         /\ calls'[c].op = "save" => calls'[c].pushed = 1

\* An item pushed while a flush was in progress is never in a batch taken
\* before the call, its call schedules no flush, and a batch holding it is
\* taken only after the batch in flight at the call handed out its results.
DispatchedLater ==
  \A c \in DOMAIN calls :
    (calls[c].flushing /\ calls[c].pushed = 1) =>
      /\ calls[c].scheduled = 0
      /\ \A b \in BatchesOf(calls[c].ret.id) :
           /\ b > calls[c].batches
           /\ \A x \in calls[c].batches..(b - 1) : Distributed(x)

\* Call c pushed an item in the deferral window: a flush was scheduled and
\* had not started.
InDeferralWindow(c) ==
  /\ calls[c].pushed = 1
  /\ ~calls[c].flushing
  /\ ~IdleAtCall(c)

\* The item of call c, at place pos of the queue when batch b was taken, is
\* of the kind of every item before it and within maxBatchSize.
FitsBatch(c, b) ==
  LET q == dispatched[b].queueBefore
      pos == PositionOf(q, calls[c].ret.id)
  IN /\ \A i \in 1..pos : q[i].type = q[1].type
     /\ options.maxBatchSize = 0 \/ pos <= options.maxBatchSize

CacheEntry(key) == Get(loadCache, ToPropertyKey(cacheKeyOf(key)))

\* C19: every cache key the load cache holds something for maps to the
\* promise of a Load item of that cache key, pushed by a load call that no
\* save call to that cache key has followed.
C19_CacheEntriesAreCurrentLoads ==
  \A k \in callerKeys :
    Truthy(CacheEntry(k)) =>
      /\ CacheEntry(k).kind = "promise"
      /\ enqueued[CacheEntry(k).id].type = "load"
      /\ SameCacheKey(enqueued[CacheEntry(k).id].key, k)
      /\ \E c \in DOMAIN calls :
           /\ calls[c].op = "load"
           /\ calls[c].pushed = 1
           /\ calls[c].ret = CacheEntry(k)
           /\ \A x \in (c + 1)..Len(calls) :
                ~(calls[x].op = "save" /\ SameCacheKey(calls[x].key, k))

\* C20: only equal cache keys coalesce: with caching enabled, a load(k)
\* whose cache key is the cache key of no load made since the last save to
\* it pushes a new Load item for k and returns that item's new promise,
\* whatever value k is; so two keys with different cache keys never get the
\* same promise from the cache.
C20_OnlyEqualCacheKeysCoalesce ==
  shouldCache(options.cache) =>
    /\ \A j \in DOMAIN calls :
         (calls[j].op = "load" /\ FirstLoad(j)) =>
           /\ calls[j].pushed = 1
           /\ calls[j].ret.kind = "promise"
           /\ enqueued[calls[j].ret.id].type = "load"
           /\ enqueued[calls[j].ret.id].key = calls[j].key
           /\ \A i \in 1..(j - 1) : calls[i].ret # calls[j].ret
    /\ \A i \in DOMAIN calls : \A j \in DOMAIN calls :
         ( /\ calls[i].op = "load" /\ calls[j].op = "load"
           /\ ~SameCacheKey(calls[i].key, calls[j].key) )
         => calls[i].ret # calls[j].ret

\* The load of call i had completed when call j was made: its promise is
\* settled by a batch that had handed out its results by then.
CompletedBefore(i, j) ==
  /\ calls[i].ret.kind = "promise"
  /\ promises[calls[i].ret.id].st # "pending"
  /\ \/ promises[calls[i].ret.id].batch < calls[j].batches
     \/ /\ promises[calls[i].ret.id].batch = calls[j].batches
        /\ ~calls[j].flushing

\* A step that is no load or save call leaves the load cache as it is.
OnlyCallsChangeCache == (loadCache' # loadCache) => CallStep

\* An entry leaves the load cache only in a step that holds a save call
\* whose cache key names it.
OnlySaveRemovesEntries ==
  \A pk \in DOMAIN loadCache :
    pk \notin DOMAIN loadCache' =>
      \E c \in (Len(calls) + 1)..Len(calls') :
        /\ calls'[c].op = "save"
        /\ ToPropertyKey(cacheKeyOf(calls'[c].key)) = pk

\* C21: dispatching and settling a batch leaves the load cache unchanged and
\* only save removes entries; so, with caching enabled, once a load of k has
\* completed (resolved, rejected by an Error at its position, or rejected by
\* a validation error), every later load(k) with no save to k's cache key in
\* between returns that same settled promise and pushes no item, so the
\* batch load function is not called again for it.
C21_SettlingLeavesCacheUnchanged ==
  /\ [][OnlyCallsChangeCache /\ OnlySaveRemovesEntries]_vars
  /\ [](shouldCache(options.cache) =>
          \A i \in DOMAIN calls : \A j \in DOMAIN calls :
            ( /\ i < j
              /\ calls[i].op = "load" /\ calls[j].op = "load"
              /\ calls[i].key = calls[j].key
              /\ calls[i].pushed = 1
              /\ CompletedBefore(i, j)
              /\ ~SaveBetween(i, j, calls[i].key) )
            => /\ calls[j].ret = calls[i].ret
               /\ calls[j].pushed = 0
               /\ Cardinality(LoadBatchesOf(calls[i].ret.id)) = 1)

====
